---- MODULE Spec2Model ----
(***************************************************************************)
(* Stock-Analysis MCP server: the four exposed tools of main.py            *)
(* (get_stock_quote, get_stock_fundamentals, get_stock_news,               *)
(* get_stock_analysis) and the aggregation functions of                    *)
(* src/stock_mcp/tools.py they call.                                       *)
(*                                                                         *)
(* Representation                                                          *)
(*  - A Python string is a sequence of tokens; concatenation is \o.  The   *)
(*    exchange suffixes ".NS", ".BO", ".BSE" are single tokens, so         *)
(*    str.endswith is a test of the last token and str.replace removes     *)
(*    tokens.                                                              *)
(*  - A Python dict is a TLA+ function with a finite set of string keys;   *)
(*    a missing key is a key outside its DOMAIN.                           *)
(*  - A call that may raise returns Ok(v) or Raise(msg); msg is str(e).    *)
(*  - The "timestamp" fields (datetime.now()) of the envelopes are left    *)
(*    out: they are clock readings that no operation reads back.           *)
(***************************************************************************)
EXTENDS Integers, Sequences, FiniteSets, TLC

VARIABLES
  pc,               \* position of the request being served
  op,               \* the exposed tool the client called ("none" when idle)
  args,             \* its arguments
  sub,              \* arguments of the tool handler currently running
  requests,         \* provider accesses made while serving the request, in order
  calls,            \* begin/end events of the tool handlers, in order
  yahoo_error,      \* get_indian_stock_quote: str(yahoo_error), <<>> before the except
  av_error,         \* get_indian_stock_quote: str(av_error), <<>> before the except
  combined_news,    \* get_indian_stock_news: combined_news
  yf_success,       \* get_indian_stock_news: yf_success
  google_success,   \* get_indian_stock_news: google_success
  failed,           \* components whose underlying function raised
  analysis_result,  \* get_stock_analysis: analysis_result
  response,         \* what the client received
  other_pending     \* another get_stock_quote call is suspended at its provider request

vars == <<pc, op, args, sub, requests, calls, yahoo_error, av_error, combined_news,
          yf_success, google_success, failed, analysis_result, response, other_pending>>

(***************************************************************************)
(* Bounds of the model.                                                    *)
(***************************************************************************)
\* longest list of raw items the native news provider returns to get_stock_news
MaxYfItems == 2
\* longest list of entries of the syndication feed returned to get_stock_news
MaxGoogleItems == 2
\* longest news list per source when the news is fetched inside get_stock_analysis
MaxAnalysisItems == 1

(***************************************************************************)
(* Python helpers.                                                         *)
(***************************************************************************)
Ok(v) == [exc |-> FALSE, val |-> v]

Raise(msg) == [exc |-> TRUE, msg |-> msg]

NoDict == [k \in {} |-> 0]

\* dict.get(key, default)
Get(d, key, default) == IF key \in DOMAIN d THEN d[key] ELSE default

\* str.endswith(suffix), suffix a single token
EndsWith(s, suffix) == Len(s) > 0 /\ s[Len(s)] = suffix

\* str.replace(token, '')
RECURSIVE Remove(_, _)
Remove(s, token) ==
  IF s = <<>> THEN <<>>
  ELSE IF Head(s) = token THEN Remove(Tail(s), token)
  ELSE <<Head(s)>> \o Remove(Tail(s), token)

\* sub in s, for strings
Contains(s, part) ==
  \E i \in 1..(Len(s) + 1) :
    i + Len(part) - 1 <= Len(s) /\ SubSeq(s, i, i + Len(part) - 1) = part

(***************************************************************************)
(* Binary floating point (IEEE 754 double, round to nearest, ties to       *)
(* even).  A positive float is [m |-> bits, e |-> k]: 53 bits, the most    *)
(* significant first and equal to 1, standing for the number m * 2^k.      *)
(***************************************************************************)
FloatPrecision == 53

\* how many bits are worked on at a time, so that no product leaves the
\* 32-bit integers: divisors stay below 2^23, multipliers below 2^12
ChunkBits == 8

LimbBits == 18

\* the integer v < 2^w as w bits, most significant first
FixedBits(v, w) == [i \in 1..w |-> (v \div (2 ^ (w - i))) % 2]

\* the number of bits of the integer n >= 0
RECURSIVE BitLength(_)
BitLength(n) == IF n = 0 THEN 0 ELSE 1 + BitLength(n \div 2)

\* the bits of the integer n >= 0, most significant first, <<>> for 0
BitsOf(n) == FixedBits(n, BitLength(n))

\* the integer a bit string stands for
RECURSIVE ValueOf(_)
ValueOf(bits) ==
  IF bits = <<>> THEN 0
  ELSE 2 * ValueOf(SubSeq(bits, 1, Len(bits) - 1)) + bits[Len(bits)]

\* the first k bits of the binary fraction r / d, 0 <= r < d
RECURSIVE FractionBits(_, _, _)
FractionBits(r, d, k) ==
  IF k = 0 THEN <<>>
  ELSE LET w == IF k < ChunkBits THEN k ELSE ChunkBits
           t == r * (2 ^ w)
       IN  FixedBits(t \div d, w) \o FractionBits(t % d, d, k - w)

\* what is left of r / d after its first k bits
RECURSIVE FractionRest(_, _, _)
FractionRest(r, d, k) ==
  IF k = 0 THEN r
  ELSE LET w == IF k < ChunkBits THEN k ELSE ChunkBits
       IN  FractionRest((r * (2 ^ w)) % d, d, k - w)

\* the zero bits at the head of the binary fraction r / d, 0 < r < d
RECURSIVE LeadingZeros(_, _)
LeadingZeros(r, d) == IF 2 * r >= d THEN 0 ELSE 1 + LeadingZeros(2 * r, d)

\* bits + 1
Increment(bits) ==
  IF \A i \in 1..Len(bits) : bits[i] = 1
  THEN <<1>> \o [i \in 1..Len(bits) |-> 0]
  ELSE LET last == CHOOSE j \in 1..Len(bits) :
                     bits[j] = 0 /\ \A i \in (j + 1)..Len(bits) : bits[i] = 1
       IN  [i \in 1..Len(bits) |-> IF i < last THEN bits[i]
                                   ELSE IF i = last THEN 1 ELSE 0]

\* bits * k + carry for a small integer k, a limb at a time from the right
RECURSIVE TimesCarry(_, _, _)
TimesCarry(bits, k, carry) ==
  IF bits = <<>> THEN BitsOf(carry)
  ELSE LET cut == IF Len(bits) > LimbBits THEN Len(bits) - LimbBits ELSE 0
           w == Len(bits) - cut
           t == ValueOf(SubSeq(bits, cut + 1, Len(bits))) * k + carry
       IN  TimesCarry(SubSeq(bits, 1, cut), k, t \div (2 ^ w)) \o FixedBits(t % (2 ^ w), w)

Times(bits, k) == TimesCarry(bits, k, 0)

\* the float nearest to bits * 2^e (+ something below the last bit when
\* `more`), bits having at least FloatPrecision + 1 bits, the first one 1
RoundToFloat(bits, more, e) ==
  LET dropped == Len(bits) - FloatPrecision
      kept == SubSeq(bits, 1, FloatPrecision)
      guard == bits[FloatPrecision + 1]
      sticky == more \/ \E i \in (FloatPrecision + 2)..Len(bits) : bits[i] = 1
      up == guard = 1 /\ (sticky \/ kept[FloatPrecision] = 1)
      m == IF up THEN Increment(kept) ELSE kept
  IN  IF Len(m) > FloatPrecision
      THEN [m |-> SubSeq(m, 1, FloatPrecision), e |-> e + dropped + 1]
      ELSE [m |-> m, e |-> e + dropped]

\* n / d for integers n > 0, d > 0: the float nearest to the quotient
TrueDivide(n, d) ==
  LET whole == BitsOf(n \div d)
      r == n % d
      zeros == IF whole = <<>> /\ r # 0 THEN LeadingZeros(r, d) ELSE 0
      k == zeros + FloatPrecision + 1 - Len(whole)
      bits == whole \o FractionBits(r, d, k)
  IN  RoundToFloat(SubSeq(bits, zeros + 1, Len(bits)), FractionRest(r, d, k) # 0, -k)

\* x * k for a float x > 0 and an integer k > 1
FloatTimes(x, k) == RoundToFloat(Times(x.m, k), FALSE, x.e)

\* round(x, 2) for a float 0 < x < 2^31 / 100, in hundredths: the decimal
\* with two places nearest to the number x stands for, ties to even
RoundHundredths(x) ==
  LET scaled == Times(x.m, 100)
      places == -x.e
      short == places + 1 - Len(scaled)
      padded == (IF short > 0 THEN [i \in 1..short |-> 0] ELSE <<>>) \o scaled
      whole == ValueOf(SubSeq(padded, 1, Len(padded) - places))
      guard == padded[Len(padded) - places + 1]
      sticky == \E i \in (Len(padded) - places + 2)..Len(padded) : padded[i] = 1
  IN  IF guard = 1 /\ (sticky \/ whole % 2 = 1) THEN whole + 1 ELSE whole

\* round(change / previous_close * 100, 2) in hundredths of a percent, for
\* integers change and previous_close # 0
RoundedPercent(change, previous_close) ==
  LET negative == (change < 0) # (previous_close < 0)
      n == IF change < 0 THEN -change ELSE change
      d == IF previous_close < 0 THEN -previous_close ELSE previous_close
      hundredths == IF n = 0 THEN 0
                    ELSE RoundHundredths(FloatTimes(TrueDivide(n, d), 100))
  IN  IF negative THEN -hundredths ELSE hundredths

\* all sequences over S of length 0..n
SeqsUpTo(S, n) == UNION {[1..k -> S] : k \in 0..n}

(***************************************************************************)
(* Symbols.                                                                *)
(***************************************************************************)
Symbols ==
  {<<"INFY">>, <<"INFY", ".NS">>, <<"INFY", ".BO">>, <<"INFY", ".BSE">>,
   <<"INFY", ".BSE", ".BO">>}

\* mutant of NormalizeYahoo: only .NS is recognized
NormalizeYahooNseOnly(symbol) ==
  IF ~EndsWith(symbol, ".NS") THEN symbol \o <<".NS">> ELSE symbol

\* get_indian_stock_quote_yahoo, get_indian_stock_fundamentals: default to NSE
NormalizeYahoo(symbol) ==
  IF ~(EndsWith(symbol, ".NS") \/ EndsWith(symbol, ".BO"))
  THEN symbol \o <<".NS">>
  ELSE symbol

\* get_indian_stock_quote_alphavantage: add .BSE
NormalizeAlphaVantage(symbol) ==
  IF ~EndsWith(symbol, ".BSE") THEN symbol \o <<".BSE">> ELSE symbol

(***************************************************************************)
(* Primary quote provider (Yahoo Finance chart endpoint).                  *)
(* A response is a transport failure, a non-2xx status, a body that is not *)
(* JSON, or a JSON body {"chart": {"error": .., "result": ..}}: error is   *)
(* <<>> for null, result is null (kind "none") or a list.                  *)
(***************************************************************************)
YahooMetas ==
  { ("regularMarketPrice" :> 2500) @@ ("previousClose" :> 2450)
      @@ ("regularMarketDayHigh" :> 2510) @@ ("regularMarketDayLow" :> 2440)
      @@ ("regularMarketVolume" :> 1000) @@ ("regularMarketTime" :> 1700000000),
    ("regularMarketPrice" :> 5) @@ ("previousClose" :> 0),
    ("regularMarketPrice" :> 1) @@ ("previousClose" :> 3),
    ("regularMarketPrice" :> 183) @@ ("previousClose" :> 160),
    NoDict }

YahooFailures ==
  { [kind |-> "transport_error", text |-> <<"ReadTimeout">>],
    [kind |-> "http_status", status |-> "503"],
    [kind |-> "invalid_json", text |-> <<"Expecting value">>],
    [kind |-> "json", error |-> <<"Not Found">>, result |-> [kind |-> "none"]],
    [kind |-> "json", error |-> <<>>, result |-> [kind |-> "none"]],
    [kind |-> "json", error |-> <<>>, result |-> [kind |-> "list", items |-> <<>>]] }

YahooResponses ==
  YahooFailures \cup
  { [kind |-> "json", error |-> <<>>,
     result |-> [kind |-> "list", items |-> <<[meta |-> m]>>]] : m \in YahooMetas }

get_indian_stock_quote_yahoo(symbol, resp) ==
  LET sym == NormalizeYahoo(symbol) IN
  CASE resp.kind = "http_status" ->
         Raise(<<"HTTP Error: ", resp.status>>)
    [] resp.kind \in {"transport_error", "invalid_json"} ->
         Raise(<<"Error fetching stock data: ">> \o resp.text)
    [] resp.kind = "json" /\ resp.error # <<>> ->
         Raise(<<"Error fetching stock data: ", "API Error: ">> \o resp.error)
    [] resp.kind = "json" /\ resp.error = <<>> /\ resp.result.kind = "none" ->
         Raise(<<"Error fetching stock data: ", "'NoneType' object is not subscriptable">>)
    [] resp.kind = "json" /\ resp.error = <<>> /\ resp.result.items = <<>> ->
         Raise(<<"Error fetching stock data: ", "list index out of range">>)
    [] OTHER ->
         LET meta == resp.result.items[1].meta
             current_price == Get(meta, "regularMarketPrice", 0)
             previous_close == Get(meta, "previousClose", 0)
             change == current_price - previous_close
             \* change_percent in hundredths of a percent: round(.., 2)
             change_percent ==
               IF previous_close # 0
               THEN RoundedPercent(change, previous_close)
               ELSE 0
         IN  Ok(   ("symbol" :> sym)
                @@ ("current_price" :> current_price)
                @@ ("previous_close" :> previous_close)
                @@ ("change" :> change)
                @@ ("change_percent" :> [type |-> "number", x100 |-> change_percent])
                @@ ("day_high" :> Get(meta, "regularMarketDayHigh", 0))
                @@ ("day_low" :> Get(meta, "regularMarketDayLow", 0))
                @@ ("volume" :> Get(meta, "regularMarketVolume", 0))
                @@ ("timestamp" :> Get(meta, "regularMarketTime", 0)) )

(***************************************************************************)
(* Secondary quote provider (Alpha Vantage GLOBAL_QUOTE).                  *)
(* The sub-fields of "Global Quote" are strings: StrNum(n) is the decimal  *)
(* numeral of the integer n ('1000'), StrDecimal(n) the same with decimal  *)
(* places ('1000.0000'), which float() accepts and int() rejects, StrJunk  *)
(* a string both reject; PyInt(0) is the integer default of               *)
(* quote.get(.., 0).                                                       *)
(***************************************************************************)
StrNum(n) ==
  [type |-> "str", text |-> ToString(n), float_ok |-> TRUE, int_ok |-> TRUE, num |-> n]

StrDecimal(n) ==
  [type |-> "str", text |-> ToString(n) \o ".0000", float_ok |-> TRUE, int_ok |-> FALSE,
   num |-> n]

StrJunk == [type |-> "str", text |-> "abc", float_ok |-> FALSE, int_ok |-> FALSE, num |-> 0]

PyInt(n) ==
  [type |-> "int", text |-> ToString(n), float_ok |-> TRUE, int_ok |-> TRUE, num |-> n]

\* float(v)
ToFloat(v) ==
  IF v.float_ok THEN Ok(v.num)
  ELSE Raise(<<"could not convert string to float: ", "'" \o v.text \o "'">>)

\* int(v)
ToInt(v) ==
  IF v.int_ok THEN Ok(v.num)
  ELSE Raise(<<"invalid literal for int() with base 10: ", "'" \o v.text \o "'">>)

AlphaVantageQuotes ==
  { ("01. symbol" :> <<"INFY", ".BSE">>) @@ ("05. price" :> StrNum(2500))
      @@ ("09. change" :> StrNum(50)) @@ ("10. change percent" :> <<"2.0408", "%">>)
      @@ ("03. high" :> StrNum(2510)) @@ ("04. low" :> StrNum(2440))
      @@ ("06. volume" :> StrNum(1000)) @@ ("08. previous close" :> StrNum(2450))
      @@ ("07. latest trading day" :> <<"2024-05-31">>),
    ("05. price" :> StrNum(5)) @@ ("08. previous close" :> StrNum(0))
      @@ ("10. change percent" :> <<"0.0000", "%">>),
    ("05. price" :> StrJunk),
    ("05. price" :> StrNum(5)) @@ ("06. volume" :> StrJunk),
    ("05. price" :> StrDecimal(5)) @@ ("06. volume" :> StrDecimal(1000)),
    NoDict }

AlphaVantageFailures ==
  { [kind |-> "transport_error", text |-> <<"ConnectTimeout">>],
    [kind |-> "http_status", status |-> "429"],
    [kind |-> "invalid_json", text |-> <<"Expecting value">>],
    [kind |-> "json", body |-> ("Note" :> <<"API call frequency">>)] }

AlphaVantageResponses ==
  AlphaVantageFailures \cup
  { [kind |-> "json", body |-> ("Global Quote" :> q)] : q \in AlphaVantageQuotes }

get_indian_stock_quote_alphavantage(symbol, resp) ==
  LET sym == NormalizeAlphaVantage(symbol) IN
  CASE resp.kind = "http_status" ->
         Raise(<<"HTTP Error: ", resp.status>>)
    [] resp.kind \in {"transport_error", "invalid_json"} ->
         Raise(<<"Error fetching stock data: ">> \o resp.text)
    [] resp.kind = "json" /\ "Global Quote" \notin DOMAIN resp.body ->
         Raise(<<"Error fetching stock data: ", "Invalid response or API limit reached">>)
    [] OTHER ->
         LET quote == resp.body["Global Quote"]
             price == ToFloat(Get(quote, "05. price", PyInt(0)))
             change == ToFloat(Get(quote, "09. change", PyInt(0)))
             high == ToFloat(Get(quote, "03. high", PyInt(0)))
             low == ToFloat(Get(quote, "04. low", PyInt(0)))
             volume == ToInt(Get(quote, "06. volume", PyInt(0)))
             prev == ToFloat(Get(quote, "08. previous close", PyInt(0)))
             conv == <<price, change, high, low, volume, prev>>
         IN  IF \E i \in 1..Len(conv) : conv[i].exc
             THEN LET i == CHOOSE j \in 1..Len(conv) :
                             conv[j].exc /\ \A k \in 1..(j - 1) : ~conv[k].exc
                  IN  Raise(<<"Error fetching stock data: ">> \o conv[i].msg)
             ELSE Ok(   ("symbol" :> Get(quote, "01. symbol", sym))
                     @@ ("current_price" :> price.val)
                     @@ ("change" :> change.val)
                     @@ ("change_percent" :>
                           [type |-> "str",
                            text |-> Remove(Get(quote, "10. change percent", <<"0",
                 "%">>), "%")])
                     @@ ("day_high" :> high.val)
                     @@ ("day_low" :> low.val)
                     @@ ("volume" :> volume.val)
                     @@ ("previous_close" :> prev.val)
                     @@ ("latest_trading_day" :>
                           Get(quote, "07. latest trading day", <<"N/A">>)) )

(***************************************************************************)
(* Environments.  A tool called by the client sees every response of the   *)
(* sets above; inside get_stock_analysis, where the three components       *)
(* multiply, each provider answers from a representative subset.           *)
(***************************************************************************)
InAnalysis == op = "get_stock_analysis"

YahooEnv ==
  IF InAnalysis
  THEN { r \in YahooResponses :
           \/ r.kind = "transport_error"
           \/ r.kind = "json" /\ r.error # <<>>
           \/ r.kind = "json" /\ r.result.kind = "list" /\ r.result.items # <<>>
                /\ Get(r.result.items[1].meta, "previousClose", 0) = 2450 }
  ELSE YahooResponses

AlphaVantageEnv ==
  IF InAnalysis
  THEN { r \in AlphaVantageResponses :
           \/ r.kind = "json" /\ "Global Quote" \notin DOMAIN r.body
           \/ r.kind = "json" /\ "Global Quote" \in DOMAIN r.body
                /\ r.body["Global Quote"] = NoDict }
  ELSE AlphaVantageResponses

(***************************************************************************)
(* get_indian_stock_quote: the fallback chain.                             *)
(***************************************************************************)
\* the request get_indian_stock_quote_yahoo issues (client.get(url))
YahooRequest(symbol) ==
  [provider |-> "Yahoo Finance", target |-> NormalizeYahoo(symbol)]

\* the request get_indian_stock_quote_alphavantage issues
AlphaVantageRequest(symbol) ==
  [provider |-> "Alpha Vantage", target |-> NormalizeAlphaVantage(symbol)]

\* result['data_source'] = 'Yahoo Finance'
TagYahoo(result) == ("data_source" :> "Yahoo Finance") @@ result

\* mutant of TagAlphaVantage: the tag of the first branch, copied
TagAlphaVantageAsYahoo(result) == ("data_source" :> "Yahoo Finance") @@ result

\* result['data_source'] = 'Alpha Vantage'
TagAlphaVantage(result) == ("data_source" :> "Alpha Vantage") @@ result

\* mutant of BothFailed: only the last provider's message is kept
BothFailedLastOnly(yahoo_msg, av_msg) ==
  Raise(<<"Both APIs failed - Alpha Vantage: ">> \o av_msg)

\* raise Exception(f"Both APIs failed - Yahoo: {..}, Alpha Vantage: {..}")
BothFailed(yahoo_msg, av_msg) ==
  Raise(<<"Both APIs failed - Yahoo: ">> \o yahoo_msg
          \o <<", Alpha Vantage: ">> \o av_msg)

(***************************************************************************)
(* main.py: the tool handlers' envelopes.                                  *)
(***************************************************************************)
\* get_stock_quote, given the outcome of await get_indian_stock_quote(symbol)
get_stock_quote(symbol, quote_data) ==
  IF ~quote_data.exc
  THEN Ok([success |-> TRUE, data |-> quote_data.val])
  ELSE Ok([success |-> FALSE, error |-> quote_data.msg, symbol |-> symbol])

\* an ordered dict: a sequence of key/value items, in insertion order
Item(k, v) == [key |-> k, value |-> v]

\* get_stock_analysis: analysis_result["data"][component] = result, or the
\* failed sub-result of the except clause when the handler raised
StoreComponent(result, component, handled) ==
  [result EXCEPT !.data =
     Append(@, Item(component,
                    IF handled.exc
                    THEN [success |-> FALSE, error |-> handled.msg]
                    ELSE handled.val))]

Begin(component) == [component |-> component, event |-> "begin"]

End(component) == [component |-> component, event |-> "end"]

\* mutant of AfterComponent: a failed component ends the analysis
AfterComponentStopsOnFailure(component) ==
  IF component \in failed' THEN "analysis_finish"
  ELSE CASE component = "quote" -> "analysis_fundamentals"
         [] component = "fundamentals" ->
              IF args.include_news THEN "analysis_news" ELSE "analysis_finish"
         [] OTHER -> "analysis_finish"

\* where get_stock_analysis continues after a component
AfterComponent(component) ==
  CASE component = "quote" -> "analysis_fundamentals"
    [] component = "fundamentals" ->
         IF args.include_news THEN "analysis_news" ELSE "analysis_finish"
    [] OTHER -> "analysis_finish"

\* A tool handler finishes with `handled`: the client receives it, or
\* get_stock_analysis stores it and goes on.  `raised` tells whether the
\* underlying function of tools.py raised.
Deliver(component, raised, handled) ==
  /\ calls' = Append(calls, End(component))
  /\ failed' = IF raised THEN failed \cup {component} ELSE failed
  /\ IF InAnalysis
     THEN /\ analysis_result' = StoreComponent(analysis_result, component, handled)
          /\ pc' = AfterComponent(component)
          /\ UNCHANGED response
     ELSE /\ response' = handled
          /\ pc' = "done"
          /\ UNCHANGED analysis_result

(***************************************************************************)
(* Fundamentals provider (yfinance Ticker object).                         *)
(* ctor is <<>> when yf.Ticker(ticker) returns, else the text of what it   *)
(* raised.  An accessor raises, returns None, or returns a value: a dict   *)
(* for info, a DataFrame of some shape <<rows, columns>> for the others.   *)
(***************************************************************************)
Sections == <<"info", "financials", "balance_sheet", "cashflow", "sustainability">>

InfoAnswers ==
  { [kind |-> "raise"], [kind |-> "none"],
    [kind |-> "value", dict |-> NoDict],
    [kind |-> "value", dict |-> ("longName" :> "Infosys Limited")] }

FrameAnswers ==
  { [kind |-> "raise"], [kind |-> "none"],
    [kind |-> "value", shape |-> <<0, 0>>],
    [kind |-> "value", shape |-> <<1, 1>>] }

TickerObject(ctor, info, financials, balance_sheet, cashflow, sustainability) ==
  [ctor |-> ctor, info |-> info, financials |-> financials,
   balance_sheet |-> balance_sheet, cashflow |-> cashflow,
   sustainability |-> sustainability]

TickerObjects ==
  { TickerObject(<<>>, i, f, b, c, s) :
      i \in InfoAnswers, f \in FrameAnswers, b \in FrameAnswers,
      c \in FrameAnswers, s \in FrameAnswers }
  \cup
  { TickerObject(e, [kind |-> "none"], [kind |-> "none"], [kind |-> "none"],
                 [kind |-> "none"], [kind |-> "none"]) :
      e \in {<<"boom">>, <<"No fundamental data available">>} }

\* DataFrame.empty
FrameEmpty(frame) == frame.shape[1] = 0 \/ frame.shape[2] = 0

\* DataFrame.to_dict(): column -> (index -> value)
ToDict(frame) ==
  [c \in 1..frame.shape[2] |-> [r \in 1..frame.shape[1] |-> "cell"]]

\* what one section's block stores under data[section]; the accessor returned
SectionValue(section, answer) ==
  IF section = "info"
  THEN IF answer.kind = "value" /\ answer.dict # NoDict THEN answer.dict ELSE NoDict
  ELSE IF answer.kind = "value" /\ ~FrameEmpty(answer) THEN ToDict(answer) ELSE NoDict

\* the inner try block from section i on: one guarded block around all the
\* sections, left at the first accessor that raises
RECURSIVE FetchSections(_, _, _)
FetchSections(stock, i, data) ==
  IF i > Len(Sections) THEN data
  ELSE IF stock[Sections[i]].kind = "raise" THEN data
  ELSE FetchSections(stock, i + 1,
                     (Sections[i] :> SectionValue(Sections[i], stock[Sections[i]])) @@ data)

\* the accessors get_indian_stock_fundamentals reads, in order
RECURSIVE SectionAccesses(_, _, _)
SectionAccesses(stock, i, ticker) ==
  IF i > Len(Sections) THEN <<>>
  ELSE <<[provider |-> "yfinance." \o Sections[i], target |-> ticker]>>
       \o (IF stock[Sections[i]].kind = "raise" THEN <<>>
           ELSE SectionAccesses(stock, i + 1, ticker))

FundamentalsRequests(ticker, stock) ==
  LET sym == NormalizeYahoo(ticker) IN
  <<[provider |-> "yfinance.Ticker", target |-> sym]>>
  \o (IF stock.ctor # <<>> THEN <<>> ELSE SectionAccesses(stock, 1, sym))

get_indian_stock_fundamentals(ticker, stock) ==
  LET sym == NormalizeYahoo(ticker) IN
  IF stock.ctor # <<>>
  THEN IF Contains(stock.ctor, <<"No fundamental data available">>)
       THEN Raise(stock.ctor)
       ELSE Raise(<<"Unexpected error fetching fundamentals for ">> \o sym
                    \o <<": ">> \o stock.ctor)
  ELSE Ok(FetchSections(stock, 1, NoDict))

\* get_stock_fundamentals, given the outcome of get_indian_stock_fundamentals
get_stock_fundamentals(ticker, fundamentals_data) ==
  IF ~fundamentals_data.exc
  THEN Ok([success |-> TRUE, ticker |-> ticker, data |-> fundamentals_data.val])
  ELSE Ok([success |-> FALSE, error |-> fundamentals_data.msg, ticker |-> ticker])

FundamentalsEnv ==
  IF InAnalysis
  THEN { t \in TickerObjects :
           \/ t.ctor = <<"boom">>
           \/ /\ t.ctor = <<>>
              /\ t.info.kind = "value"
              /\ t.financials.kind \in {"value", "raise"}
              /\ t.balance_sheet = [kind |-> "value", shape |-> <<1, 1>>]
              /\ t.cashflow = [kind |-> "value", shape |-> <<1, 1>>]
              /\ t.sustainability = [kind |-> "none"] }
  ELSE TickerObjects


(***************************************************************************)
(* News.  A date string is [fmt, t]: the textual format it is written in   *)
(* and the instant it denotes; instants are 1, 2, ..; datetime.min is 0.   *)
(*   "iso"    "%Y-%m-%dT%H:%M:%SZ"        (what the Yahoo branch parses)   *)
(*   "rfc822" "%a, %d %b %Y %H:%M:%S %Z"  (what parse_google_date parses)  *)
(*   "empty"  the empty string                                             *)
(*   "int"    not a string at all (an epoch number)                        *)
(***************************************************************************)
DateMin == 0

DateStr(fmt, t) == [fmt |-> fmt, t |-> t]

\* the raw items of yfinance's Ticker.news
YfRawItems ==
  { \* complete item
    [content |->    ("title" :> "ya") @@ ("pubDate" :> DateStr("iso", 2))
                 @@ ("canonicalUrl" :> ("url" :> "http://a"))
                 @@ ("provider" :> ("displayName" :> "Reuters"))],
    \* click-through link only, date in another format, no provider
    [content |->    ("title" :> "yb") @@ ("pubDate" :> DateStr("rfc822", 3))
                 @@ ("clickThroughUrl" :> ("url" :> "http://b"))],
    \* no pubDate
    [content |->    ("title" :> "yc")
                 @@ ("canonicalUrl" :> ("url" :> "http://c"))],
    \* no title
    [content |->    ("pubDate" :> DateStr("iso", 1))
                 @@ ("canonicalUrl" :> ("url" :> "http://d"))],
    \* canonicalUrl without a url, clickThroughUrl with one
    [content |->    ("title" :> "ye") @@ ("pubDate" :> DateStr("iso", 1))
                 @@ ("canonicalUrl" :> NoDict)
                 @@ ("clickThroughUrl" :> ("url" :> "http://e"))],
    \* the older item shape: no "content" key
    [title |-> "yf", link |-> "http://f"],
    \* pubDate is a number
    [content |->    ("title" :> "yg") @@ ("pubDate" :> DateStr("int", 3))
                 @@ ("canonicalUrl" :> ("url" :> "http://g"))] }

\* the entries of the parsed Google News feed
GoogleEntries ==
  { ("title" :> "ga") @@ ("link" :> "http://ga") @@ ("published" :> DateStr("rfc822", 2))
      @@ ("source" :> [type |-> "dict", dict |-> ("title" :> "Mint")]),
    ("title" :> "gb") @@ ("link" :> "http://gb") @@ ("published" :> DateStr("rfc822", 1)),
    \* no title
    ("link" :> "http://gc") @@ ("published" :> DateStr("rfc822", 3)),
    \* no link
    ("title" :> "gd") @@ ("published" :> DateStr("rfc822", 3))
      @@ ("source" :> [type |-> "str", text |-> "Moneycontrol"]),
    \* date in another format
    ("title" :> "ge") @@ ("link" :> "http://ge") @@ ("published" :> DateStr("iso", 3)) }

\* stock.news: raises, is None, or is a list of raw items
YfNewsAnswers(n) ==
  {[kind |-> "raise"], [kind |-> "none"]}
  \cup {[kind |-> "list", items |-> l] : l \in SeqsUpTo(YfRawItems, n)}

\* feedparser.parse(rss_url): raises, or returns a feed; bozo is set when the
\* feed could not be fetched or parsed cleanly, with whatever entries were read
GoogleFeeds(n) ==
  {[kind |-> "raise"]}
  \cup {[kind |-> "feed", bozo |-> b, entries |-> l] :
          b \in BOOLEAN, l \in SeqsUpTo(GoogleEntries, n)}

YfNewsEnv == YfNewsAnswers(IF InAnalysis THEN MaxAnalysisItems ELSE MaxYfItems)

GoogleEnv ==
  IF InAnalysis
  THEN {feed \in GoogleFeeds(MaxAnalysisItems) : feed.kind = "feed" => ~feed.bozo}
  ELSE GoogleFeeds(MaxGoogleItems)

\* the characters urllib.parse.quote_plus replaces, each a token of its own,
\* and what it puts for them; a token of letters, digits, '_', '.', '-', '~'
\* is kept
PercentEncoded ==
  (" " :> "+") @@ ("&" :> "%26") @@ ("," :> "%2C") @@ ("+" :> "%2B")
  @@ ("/" :> "%2F") @@ (":" :> "%3A") @@ ("=" :> "%3D") @@ ("?" :> "%3F")
  @@ ("%" :> "%25") @@ ("#" :> "%23") @@ ("'" :> "%27") @@ ("(" :> "%28")
  @@ (")" :> "%29")

\* urllib.parse.quote_plus(query)
QuotePlus(query) ==
  [i \in 1..Len(query) |->
     IF query[i] \in DOMAIN PercentEncoded THEN PercentEncoded[query[i]] ELSE query[i]]

build_google_news_rss_url(query) ==
  <<"https://news.google.com/rss/search?q=">> \o QuotePlus(query)
    \o <<"&hl=en-IN&gl=IN&ceid=IN:en">>

parse_google_date(date_str) ==
  IF date_str.fmt = "rfc822" THEN date_str.t ELSE DateMin

\* one turn of the loop over yf_news: the items it appends (one or none)
YahooNewsItem(raw) ==
  IF "content" \notin DOMAIN raw THEN <<>>                 \* KeyError: skipped
  ELSE
    LET item == raw.content
        pubDate == Get(item, "pubDate", DateStr("empty", 0))
        pub_time ==
          IF pubDate.fmt = "iso" THEN pubDate.t ELSE DateMin
        url ==
          IF "canonicalUrl" \in DOMAIN item THEN Get(item.canonicalUrl, "url", "")
          ELSE IF "clickThroughUrl" \in DOMAIN item
               THEN Get(item.clickThroughUrl, "url", "")
               ELSE ""
    IN  IF Get(item, "title", "") = "" THEN <<>>
        ELSE IF pubDate.fmt = "int" THEN <<>>              \* TypeError: skipped
        ELSE IF "provider" \in DOMAIN item /\ "displayName" \notin DOMAIN item.provider
             THEN <<>>                                     \* KeyError: skipped
        ELSE IF url # ""
             THEN <<[title |-> Get(item, "title", ""),
                     link |-> url,
                     publisher |-> IF "provider" \in DOMAIN item
                                   THEN item.provider.displayName
                                   ELSE "Unknown",
                     published |-> pub_time,
                     source |-> "Yahoo Finance"]>>
             ELSE <<>>

RECURSIVE YahooNewsItems(_)
YahooNewsItems(yf_news) ==
  IF yf_news = <<>> THEN <<>>
  ELSE YahooNewsItem(Head(yf_news)) \o YahooNewsItems(Tail(yf_news))

\* one turn of the loop over feed.entries
GoogleNewsItem(entry) ==
  IF Get(entry, "title", "") = "" THEN <<>>
  ELSE <<[title |-> Get(entry, "title", ""),
          link |-> Get(entry, "link", ""),
          publisher |->
            IF "source" \in DOMAIN entry
            THEN IF entry.source.type = "dict"
                 THEN Get(entry.source.dict, "title", "Unknown")
                 ELSE entry.source.text
            ELSE "Unknown",
          published |-> parse_google_date(Get(entry, "published", DateStr("empty", 0))),
          source |-> "Google News"]>>

RECURSIVE GoogleNewsItems(_)
GoogleNewsItems(entries) ==
  IF entries = <<>> THEN <<>>
  ELSE GoogleNewsItem(Head(entries)) \o GoogleNewsItems(Tail(entries))

\* list.sort(key=published, reverse=True): stable, equal keys keep their order
RECURSIVE InsertByPublished(_, _)
InsertByPublished(sorted, x) ==
  IF sorted = <<>> THEN <<x>>
  ELSE IF Head(sorted).published >= x.published
       THEN <<Head(sorted)>> \o InsertByPublished(Tail(sorted), x)
       ELSE <<x>> \o sorted

RECURSIVE SortInto(_, _)
SortInto(sorted, rest) ==
  IF rest = <<>> THEN sorted
  ELSE SortInto(InsertByPublished(sorted, Head(rest)), Tail(rest))

\* mutant of SortByPublishedDesc: the list is returned in arrival order
SortSkipped(news) == news

SortByPublishedDesc(news) == SortInto(<<>>, news)

\* mutant of Slice: the last item of the slice is lost
SliceLosesOne(news, max_items) ==
  SubSeq(news, 1, IF max_items - 1 < Len(news) THEN max_items - 1 ELSE Len(news) - 1)

\* news[:max_items]
Slice(news, max_items) ==
  IF max_items >= 0
  THEN SubSeq(news, 1, IF max_items < Len(news) THEN max_items ELSE Len(news))
  ELSE SubSeq(news, 1, IF Len(news) + max_items > 0 THEN Len(news) + max_items ELSE 0)

\* mutant of NewsRaises: the success flags are not consulted
NewsRaisesWhenEmpty(news, yf_ok, google_ok) == news = <<>>

\* "Check if we got any news at all": whether get_indian_stock_news raises
NewsRaises(news, yf_ok, google_ok) ==
  news = <<>> /\ ~yf_ok /\ ~google_ok

\* get_indian_stock_news from the check of combined_news to the return
NewsResult(ticker, news, yf_ok, google_ok, max_items) ==
  IF NewsRaises(news, yf_ok, google_ok)
  THEN Raise(<<"Failed to retrieve news from both Yahoo Finance and Google News for ">>
               \o ticker)
  ELSE Ok(Slice(SortByPublishedDesc(news), max_items))

\* mutant of get_stock_news: no except clause, the exception leaves the handler
get_stock_news_unguarded(ticker, stock_name, news_data) ==
  IF ~news_data.exc
  THEN Ok([success |-> TRUE, ticker |-> ticker, stock_name |-> stock_name,
           news_count |-> Len(news_data.val), data |-> news_data.val])
  ELSE news_data

\* get_stock_news, given the outcome of get_indian_stock_news
get_stock_news(ticker, stock_name, news_data) ==
  IF ~news_data.exc
  THEN Ok([success |-> TRUE, ticker |-> ticker, stock_name |-> stock_name,
           news_count |-> Len(news_data.val), data |-> news_data.val])
  ELSE Ok([success |-> FALSE, error |-> news_data.msg, ticker |-> ticker,
           stock_name |-> stock_name])

\* the optional query argument
NoQuery == [is_none |-> TRUE, text |-> <<>>]

Query(text) == [is_none |-> FALSE, text |-> text]

\* query = f"{stock_name} stock India" when query is None
EffectiveQuery(query, stock_name) ==
  IF query.is_none THEN stock_name \o <<" ", "stock", " ", "India">> ELSE query.text

(***************************************************************************)
(* get_stock_analysis.                                                     *)
(***************************************************************************)
\* mutant of StripSuffix: the ticker is passed on as it is
StripSuffixSkipped(ticker) == ticker

\* ticker.replace('.NS', '').replace('.BO', '')
StripSuffix(ticker) == Remove(Remove(ticker, ".NS"), ".BO")

RECURSIVE FailedComponents(_)
FailedComponents(data) ==
  IF data = <<>> THEN <<>>
  ELSE (IF ~Get(Head(data).value, "success", TRUE) THEN <<Head(data).key>> ELSE <<>>)
       \o FailedComponents(Tail(data))

\* mutant of FinishAnalysis: failed_components attached, success left as it was
FinishAnalysisKeepsSuccess(result) ==
  LET failed_components == FailedComponents(result.data) IN
  IF failed_components # <<>>
  THEN [failed_components |-> failed_components] @@ result
  ELSE result

\* "Check if any component failed" to the return
FinishAnalysis(result) ==
  LET failed_components == FailedComponents(result.data) IN
  IF failed_components # <<>>
  THEN [failed_components |-> failed_components]
         @@ [result EXCEPT !.success = FALSE]
  ELSE result


(***************************************************************************)
(* The arguments the client calls the tools with.                          *)
(***************************************************************************)
StockName == <<"Infosys">>

NewsTickers == {<<"INFY", ".NS">>}

Queries == {NoQuery, Query(<<"M", "&", "M", " ", "results">>)}

MaxItemsValues == {-1, 0, 2, 10}

MaxNewsValues == {1, 5}

(***************************************************************************)
(* The state machine.                                                      *)
(***************************************************************************)
Init ==
  /\ pc = "idle"
  /\ op = "none"
  /\ args = NoDict
  /\ sub = NoDict
  /\ requests = <<>>
  /\ calls = <<>>
  /\ yahoo_error = <<>>
  /\ av_error = <<>>
  /\ combined_news = <<>>
  /\ yf_success = FALSE
  /\ google_success = FALSE
  /\ failed = {}
  /\ analysis_result = NoDict
  /\ response = NoDict
  /\ other_pending = FALSE

\* the client calls the tool get_stock_quote(symbol)
CallGetStockQuote ==
  /\ pc = "idle"
  /\ \E symbol \in Symbols :
       /\ op' = "get_stock_quote"
       /\ args' = [symbol |-> symbol]
       /\ sub' = [symbol |-> symbol]
  /\ pc' = "quote_primary"
  /\ calls' = Append(calls, Begin("quote"))
  /\ UNCHANGED <<other_pending, requests, yahoo_error, av_error, combined_news, yf_success,
                 google_success, failed, analysis_result, response>>

\* mutant of QuotePrimary: no return after the primary's answer, the secondary
\* provider is asked as well
QuotePrimaryAlsoAsksSecondary ==
  /\ pc = "quote_primary_await"
  /\ \E resp \in YahooEnv :
       LET result == get_indian_stock_quote_yahoo(sub.symbol, resp) IN
       /\ yahoo_error' = IF result.exc THEN result.msg ELSE yahoo_error
       /\ pc' = "quote_secondary"
  /\ UNCHANGED <<other_pending, op, args, sub, requests, calls, av_error, combined_news,
                 yf_success,
                 google_success, failed, analysis_result, response>>

\* get_indian_stock_quote, first attempt, up to `await client.get(url)` in
\* get_indian_stock_quote_yahoo: the request is issued and the call suspends
QuotePrimarySend ==
  /\ pc = "quote_primary"
  /\ requests' = Append(requests, YahooRequest(sub.symbol))
  /\ pc' = "quote_primary_await"
  /\ UNCHANGED <<other_pending, op, args, sub, calls, yahoo_error, av_error, combined_news,
                 yf_success, google_success, failed, analysis_result, response>>

\* get_indian_stock_quote, first attempt, from the response of Yahoo Finance on
QuotePrimary ==
  /\ pc = "quote_primary_await"
  /\ \E resp \in YahooEnv :
       LET result == get_indian_stock_quote_yahoo(sub.symbol, resp) IN
       /\ IF result.exc
          THEN /\ yahoo_error' = result.msg
               /\ pc' = "quote_secondary"
               /\ UNCHANGED <<calls, failed, analysis_result, response>>
          ELSE /\ Deliver("quote", FALSE,
                          get_stock_quote(sub.symbol, Ok(TagYahoo(result.val))))
               /\ UNCHANGED yahoo_error
  /\ UNCHANGED <<other_pending, op, args, sub, requests, av_error, combined_news,
                 yf_success,
                 google_success>>

\* get_indian_stock_quote, second attempt, up to `await client.get(url)` in
\* get_indian_stock_quote_alphavantage
QuoteSecondarySend ==
  /\ pc = "quote_secondary"
  /\ requests' = Append(requests, AlphaVantageRequest(sub.symbol))
  /\ pc' = "quote_secondary_await"
  /\ UNCHANGED <<other_pending, op, args, sub, calls, yahoo_error, av_error, combined_news,
                 yf_success, google_success, failed, analysis_result, response>>

\* get_indian_stock_quote, second attempt, from the response of Alpha Vantage on
QuoteSecondary ==
  /\ pc = "quote_secondary_await"
  /\ \E resp \in AlphaVantageEnv :
       LET result == get_indian_stock_quote_alphavantage(sub.symbol, resp) IN
       /\ IF result.exc
          THEN /\ av_error' = result.msg
               /\ Deliver("quote", TRUE,
                          get_stock_quote(sub.symbol, BothFailed(yahoo_error, result.msg)))
          ELSE /\ UNCHANGED av_error
               /\ Deliver("quote", FALSE,
                          get_stock_quote(sub.symbol, Ok(TagAlphaVantage(result.val))))
  /\ UNCHANGED <<other_pending, op, args, sub, requests, yahoo_error, combined_news,
                 yf_success,
                 google_success>>

\* the client calls the tool get_stock_fundamentals(ticker)
CallGetStockFundamentals ==
  /\ pc = "idle"
  /\ \E ticker \in Symbols :
       /\ op' = "get_stock_fundamentals"
       /\ args' = [ticker |-> ticker]
       /\ sub' = [ticker |-> ticker]
  /\ pc' = "fundamentals"
  /\ calls' = Append(calls, Begin("fundamentals"))
  /\ UNCHANGED <<other_pending, requests, yahoo_error, av_error, combined_news, yf_success,
                 google_success, failed, analysis_result, response>>

\* get_stock_fundamentals: get_indian_stock_fundamentals(ticker) and the envelope
Fundamentals ==
  /\ pc = "fundamentals"
  /\ \E stock \in FundamentalsEnv :
       LET result == get_indian_stock_fundamentals(sub.ticker, stock) IN
       /\ requests' = requests \o FundamentalsRequests(sub.ticker, stock)
       /\ Deliver("fundamentals", result.exc,
                  get_stock_fundamentals(sub.ticker, result))
  /\ UNCHANGED <<other_pending, op, args, sub, yahoo_error, av_error, combined_news,
                 yf_success,
                 google_success>>


\* the client calls the tool get_stock_news(ticker, stock_name, query, max_items)
CallGetStockNews ==
  /\ pc = "idle"
  /\ \E ticker \in NewsTickers, query \in Queries, max_items \in MaxItemsValues :
       /\ op' = "get_stock_news"
       /\ args' = [ticker |-> ticker, stock_name |-> StockName,
                   query |-> query, max_items |-> max_items]
       /\ sub' = args'
  /\ pc' = "news_yahoo"
  /\ calls' = Append(calls, Begin("news"))
  /\ UNCHANGED <<other_pending, requests, yahoo_error, av_error, combined_news, yf_success,
                 google_success, failed, analysis_result, response>>

\* get_indian_stock_news, "1. Fetch yfinance news"
NewsYahoo ==
  /\ pc = "news_yahoo"
  /\ \E answer \in YfNewsEnv :
       LET news_items == IF answer.kind = "list" THEN answer.items ELSE <<>>
           kept == IF answer.kind = "raise" THEN <<>> ELSE YahooNewsItems(news_items)
       IN
       /\ requests' =
            Append(requests,
                   [provider |-> "yfinance.news", target |-> sub.ticker,
                    outcome |-> IF answer.kind = "raise" THEN "raise" ELSE "ok",
                    fetched |-> Len(news_items), processed |-> Len(kept)])
       /\ IF answer.kind = "raise"
          THEN UNCHANGED <<combined_news, yf_success>>
          ELSE /\ combined_news' = combined_news \o kept
               /\ yf_success' = TRUE
  /\ pc' = "news_google"
  /\ UNCHANGED <<other_pending, op, args, sub, calls, yahoo_error, av_error,
                 google_success, failed,
                 analysis_result, response>>

\* get_indian_stock_news, "2. Fetch Google News RSS"
NewsGoogle ==
  /\ pc = "news_google"
  /\ \E feed \in GoogleEnv :
       LET entries == IF feed.kind = "raise" THEN <<>> ELSE feed.entries
           kept == GoogleNewsItems(entries)
       IN
       /\ requests' =
            Append(requests,
                   [provider |-> "Google News RSS",
                    target |-> build_google_news_rss_url(
                                 EffectiveQuery(sub.query, sub.stock_name)),
                    outcome |-> IF feed.kind = "raise" THEN "raise"
                                ELSE IF feed.bozo THEN "bozo" ELSE "ok",
                    fetched |-> Len(entries), processed |-> Len(kept)])
       /\ IF feed.kind = "raise" \/ feed.entries = <<>>
          THEN UNCHANGED <<combined_news, google_success>>
          ELSE /\ combined_news' = combined_news \o kept
               /\ google_success' = TRUE
  /\ pc' = "news_finish"
  /\ UNCHANGED <<other_pending, op, args, sub, calls, yahoo_error, av_error, yf_success,
                 failed,
                 analysis_result, response>>

\* get_indian_stock_news from the check of combined_news on, and the envelope
NewsFinish ==
  /\ pc = "news_finish"
  /\ LET result == NewsResult(sub.ticker, combined_news, yf_success,
                              google_success, sub.max_items)
     IN  /\ combined_news' = IF result.exc THEN combined_news
                             ELSE SortByPublishedDesc(combined_news)
         /\ Deliver("news", result.exc,
                    get_stock_news(sub.ticker, sub.stock_name, result))
  /\ UNCHANGED <<other_pending, op, args, sub, requests, yahoo_error, av_error,
                 yf_success, google_success>>

\* the client calls the tool get_stock_analysis(ticker, stock_name, include_news, max_news)
CallGetStockAnalysis ==
  /\ pc = "idle"
  /\ \E ticker \in Symbols, include_news \in BOOLEAN, max_news \in MaxNewsValues :
       /\ op' = "get_stock_analysis"
       /\ args' = [ticker |-> ticker, stock_name |-> StockName,
                   include_news |-> include_news, max_news |-> max_news]
       /\ analysis_result' = [success |-> TRUE, ticker |-> ticker,
                              stock_name |-> StockName, data |-> <<>>]
  /\ pc' = "analysis_quote"
  /\ UNCHANGED <<other_pending, sub, requests, calls, yahoo_error, av_error,
                 combined_news, yf_success,
                 google_success, failed, response>>

\* "Get stock quote": await get_stock_quote(ticker without .NS and .BO)
AnalysisQuote ==
  /\ pc = "analysis_quote"
  /\ sub' = [symbol |-> StripSuffix(args.ticker)]
  /\ calls' = Append(calls, Begin("quote"))
  /\ pc' = "quote_primary"
  /\ UNCHANGED <<other_pending, op, args, requests, yahoo_error, av_error, combined_news,
                 yf_success,
                 google_success, failed, analysis_result, response>>

\* "Get fundamentals": await get_stock_fundamentals(ticker)
AnalysisFundamentals ==
  /\ pc = "analysis_fundamentals"
  /\ sub' = [ticker |-> args.ticker]
  /\ calls' = Append(calls, Begin("fundamentals"))
  /\ pc' = "fundamentals"
  /\ UNCHANGED <<other_pending, op, args, requests, yahoo_error, av_error, combined_news,
                 yf_success,
                 google_success, failed, analysis_result, response>>

\* "Get news if requested": await get_stock_news(ticker, stock_name, max_items=max_news)
AnalysisNews ==
  /\ pc = "analysis_news"
  /\ sub' = [ticker |-> args.ticker, stock_name |-> args.stock_name,
             query |-> NoQuery, max_items |-> args.max_news]
  /\ calls' = Append(calls, Begin("news"))
  /\ pc' = "news_yahoo"
  /\ UNCHANGED <<other_pending, op, args, requests, yahoo_error, av_error, combined_news,
                 yf_success,
                 google_success, failed, analysis_result, response>>

\* "Check if any component failed" and return analysis_result
AnalysisFinish ==
  /\ pc = "analysis_finish"
  /\ analysis_result' = FinishAnalysis(analysis_result)
  /\ response' = Ok(analysis_result')
  /\ pc' = "done"
  /\ UNCHANGED <<other_pending, op, args, sub, requests, calls, yahoo_error, av_error,
                 combined_news,
                 yf_success, google_success, failed>>


\* The event loop runs another get_stock_quote call while the call followed
\* here is suspended at a provider request or has returned: the other call
\* issues its own request and suspends, or gets its answer and returns.  The
\* handlers keep what they work on in locals, so nothing of this call changes.
\* Another call is followed only next to a call of the tool get_stock_quote.
OtherQuoteCall ==
  /\ op = "get_stock_quote"
  /\ pc \in {"quote_primary_await", "quote_secondary_await", "done"}
  /\ other_pending' = ~other_pending
  /\ UNCHANGED <<pc, op, args, sub, requests, calls, yahoo_error, av_error, combined_news,
                 yf_success, google_success, failed, analysis_result, response>>

\* the client has its response; the next request starts from fresh structures
ClientReceive ==
  /\ pc = "done"
  /\ pc' = "idle"
  /\ op' = "none"
  /\ args' = NoDict
  /\ sub' = NoDict
  /\ requests' = <<>>
  /\ calls' = <<>>
  /\ yahoo_error' = <<>>
  /\ av_error' = <<>>
  /\ combined_news' = <<>>
  /\ yf_success' = FALSE
  /\ google_success' = FALSE
  /\ failed' = {}
  /\ analysis_result' = NoDict
  /\ response' = NoDict
  /\ other_pending' = FALSE

Next ==
  \/ CallGetStockQuote
  \/ QuotePrimarySend
  \/ QuotePrimary
  \/ QuoteSecondarySend
  \/ QuoteSecondary
  \/ CallGetStockFundamentals
  \/ Fundamentals
  \/ CallGetStockNews
  \/ NewsYahoo
  \/ NewsGoogle
  \/ NewsFinish
  \/ CallGetStockAnalysis
  \/ AnalysisQuote
  \/ AnalysisFundamentals
  \/ AnalysisNews
  \/ AnalysisFinish
  \/ OtherQuoteCall
  \/ ClientReceive

Spec == Init /\ [][Next]_vars

(***************************************************************************)
(* The symbol normalization of each provider function on its own: the      *)
(* symbol is any str over the tokens below, the function is entered with   *)
(* it and, a second time, with the symbol it requested.                    *)
(***************************************************************************)
MaxSymbolLen == 3

SymbolTokens == {"INFY", ".NS", ".BO", ".BSE"}

RawSymbols == SeqsUpTo(SymbolTokens, MaxSymbolLen)

InitNormalize ==
  /\ pc = "normalize"
  /\ op = "none"
  /\ args \in {[symbol |-> s] : s \in RawSymbols}
  /\ sub = NoDict
  /\ requests = <<>>
  /\ calls = <<>>
  /\ yahoo_error = <<>>
  /\ av_error = <<>>
  /\ combined_news = <<>>
  /\ yf_success = FALSE
  /\ google_success = FALSE
  /\ failed = {}
  /\ analysis_result = NoDict
  /\ response = NoDict
  /\ other_pending = FALSE

\* get_indian_stock_quote_yahoo up to its request, twice
NormalizeForYahoo ==
  /\ pc = "normalize"
  /\ LET first == YahooRequest(args.symbol) IN
     requests' = <<first, YahooRequest(first.target)>>
  /\ pc' = "normalized"
  /\ UNCHANGED <<other_pending, op, args, sub, calls, yahoo_error, av_error,
                 combined_news, yf_success,
                 google_success, failed, analysis_result, response>>

\* get_indian_stock_quote_alphavantage up to its request, twice
NormalizeForAlphaVantage ==
  /\ pc = "normalize"
  /\ LET first == AlphaVantageRequest(args.symbol) IN
     requests' = <<first, AlphaVantageRequest(first.target)>>
  /\ pc' = "normalized"
  /\ UNCHANGED <<other_pending, op, args, sub, calls, yahoo_error, av_error,
                 combined_news, yf_success,
                 google_success, failed, analysis_result, response>>

\* get_indian_stock_fundamentals up to yf.Ticker(ticker), twice
NormalizeForFundamentals ==
  /\ pc = "normalize"
  /\ \E stock \in TickerObjects :
       LET first == Head(FundamentalsRequests(args.symbol, stock)) IN
       requests' = <<first, Head(FundamentalsRequests(first.target, stock))>>
  /\ pc' = "normalized"
  /\ UNCHANGED <<other_pending, op, args, sub, calls, yahoo_error, av_error,
                 combined_news, yf_success,
                 google_success, failed, analysis_result, response>>

NextNormalize ==
  \/ NormalizeForYahoo
  \/ NormalizeForAlphaVantage
  \/ NormalizeForFundamentals

SpecNormalize == InitNormalize /\ [][NextNormalize]_vars

(***************************************************************************)
(* Properties.                                                             *)
(***************************************************************************)
IsQuoteRequest(r) == r.provider \in {"Yahoo Finance", "Alpha Vantage"}

\* the requests the quote fallback chain made in the current call
QuoteRequests == SelectSeq(requests, IsQuoteRequest)

Ended(component) == \E i \in 1..Len(calls) : calls[i] = End(component)

\* the envelope a finished tool handler produced for `component`
Envelope(component) ==
  IF InAnalysis
  THEN LET i == CHOOSE j \in 1..Len(analysis_result.data) :
                  analysis_result.data[j].key = component
       IN  analysis_result.data[i].value
  ELSE response.val

\* str `part` occurs in `s` at position i
OccursAt(s, part, i) ==
  i >= 1 /\ i + Len(part) - 1 <= Len(s) /\ SubSeq(s, i, i + Len(part) - 1) = part

\* C1: in every call of the quote fallback chain the primary provider is
\* requested first and exactly once; the secondary provider is requested only
\* after the primary attempt has failed, and then at most once.
C1_PrimaryFirstSecondaryOnlyAfterFailure ==
  LET q == QuoteRequests IN
  /\ Len(q) <= 2
  /\ pc = "quote_primary" => q = <<>>
  /\ pc = "quote_primary_await" => Len(q) = 1
  /\ Len(q) >= 1 => q[1].provider = "Yahoo Finance"
  /\ Len(q) = 2 => q[2].provider = "Alpha Vantage" /\ yahoo_error # <<>>
  /\ pc = "quote_secondary" => Len(q) = 1 /\ yahoo_error # <<>>
  /\ pc = "quote_secondary_await" => Len(q) = 2 /\ yahoo_error # <<>>
  /\ Ended("quote") =>
       /\ Len(q) >= 1
       /\ Len(q) = 2 <=> yahoo_error # <<>>

\* a finished call in which the primary failed and the secondary was requested
C1_Witness ==
  /\ pc = "done" /\ op = "get_stock_quote"
  /\ Len(QuoteRequests) = 2
  /\ yahoo_error # <<>>
  /\ response.val.success

\* the handler events of a complete get_stock_analysis call
AnalysisSchedule(include_news) ==
  <<Begin("quote"), End("quote"), Begin("fundamentals"), End("fundamentals")>>
  \o (IF include_news THEN <<Begin("news"), End("news")>> ELSE <<>>)

\* which component of the analysis a provider request belongs to
Stage(r) ==
  IF IsQuoteRequest(r) THEN 1
  ELSE IF r.provider \in {"yfinance.news", "Google News RSS"} THEN 3
  ELSE 2

\* C2: get_stock_analysis attempts the quote, then the fundamentals, then
\* (iff include_news) the news, each handler ended before the next begins,
\* whatever failed before; the provider requests come in the same order.
C2_AllComponentsAttemptedInOrder ==
  InAnalysis =>
    LET schedule == AnalysisSchedule(args.include_news) IN
    /\ Len(calls) <= Len(schedule)
    /\ calls = SubSeq(schedule, 1, Len(calls))
    /\ pc \in {"analysis_finish", "done"} => calls = schedule
    /\ \A i, j \in 1..Len(requests) : i < j => Stage(requests[i]) <= Stage(requests[j])
    /\ pc = "done" =>
         /\ \E i \in 1..Len(requests) : Stage(requests[i]) = 1
         /\ \E i \in 1..Len(requests) : Stage(requests[i]) = 2
         /\ args.include_news <=> \E i \in 1..Len(requests) : Stage(requests[i]) = 3

\* the quote and the fundamentals both failed and the news was still fetched
C2_Witness ==
  /\ pc = "done" /\ InAnalysis
  /\ {"quote", "fundamentals"} \subseteq failed
  /\ args.include_news
  /\ calls = AnalysisSchedule(TRUE)

\* C3: the overall success flag of get_stock_analysis is true iff every
\* sub-result under data has success true; when some failed,
\* failed_components is attached and holds exactly the failed names while the
\* succeeded sub-results keep their payloads; when none failed, there is no
\* failed_components.
C3_OverallSuccessAndFailedComponents ==
  (pc = "done" /\ InAnalysis) =>
    LET r == response.val
        d == r.data
        bad == {d[i].key : i \in {j \in 1..Len(d) : ~d[j].value.success}}
    IN  /\ ~response.exc
        /\ {d[i].key : i \in 1..Len(d)} =
             {"quote", "fundamentals"} \cup (IF args.include_news THEN {"news"} ELSE {})
        /\ Len(d) = Cardinality({d[i].key : i \in 1..Len(d)})
        /\ r.success <=> bad = {}
        /\ bad = {} <=> "failed_components" \notin DOMAIN r
        /\ bad # {} =>
             /\ {r.failed_components[i] : i \in 1..Len(r.failed_components)} = bad
             /\ Len(r.failed_components) = Cardinality(bad)
        /\ \A i \in 1..Len(d) : d[i].value.success => "data" \in DOMAIN d[i].value
        /\ bad = failed

\* only the fundamentals failed; the quote and the news are there
C3_Witness ==
  /\ pc = "done" /\ InAnalysis
  /\ response.val.success = FALSE
  /\ args.include_news
  /\ response.val.failed_components = <<"fundamentals">>
  /\ Envelope("quote").success /\ "data_source" \in DOMAIN Envelope("quote").data
  /\ Envelope("news").success /\ Envelope("news").data # <<>>

AllSections == {Sections[i] : i \in 1..Len(Sections)}

SectionsRead ==
  {s \in AllSections :
     \E i \in 1..Len(requests) : requests[i].provider = "yfinance." \o s}

\* C4 (as claimed): get_indian_stock_fundamentals isolates each of the five
\* sub-sections, so whenever it returns, every sub-section was fetched and the
\* mapping has exactly the five fixed keys.
C4_FiveKeysAlways ==
  (Ended("fundamentals") /\ "fundamentals" \notin failed) =>
    /\ DOMAIN Envelope("fundamentals").data = AllSections
    /\ SectionsRead = AllSections

\* C5: get_indian_stock_news fails iff the merged list is empty and neither
\* source reported success; an empty merged list with a successful source is
\* returned as an empty sequence, a non-empty one is always returned.
C5_NewsFailsIffEmptyAndNoSuccess ==
  Ended("news") =>
    LET e == Envelope("news") IN
    /\ "news" \in failed <=> (combined_news = <<>> /\ ~yf_success /\ ~google_success)
    /\ e.success <=> "news" \notin failed
    /\ (combined_news = <<>> /\ (yf_success \/ google_success)) =>
         e.success /\ e.data = <<>>
    /\ combined_news # <<>> => e.success

\* nothing survived, a source reported success, an empty sequence is returned
C5_Witness ==
  /\ pc = "done" /\ op = "get_stock_news"
  /\ combined_news = <<>>
  /\ yf_success /\ ~google_success
  /\ response.val.success /\ response.val.data = <<>>

\* C6: when both quote providers fail, the error of the chain embeds the
\* primary's and the secondary's messages, and get_stock_quote returns it in a
\* success=false response.
C6_CombinedErrorEmbedsBoth ==
  (Ended("quote") /\ av_error # <<>>) =>
    LET e == Envelope("quote") IN
    /\ yahoo_error # <<>>
    /\ "quote" \in failed
    /\ ~InAnalysis => ~response.exc
    /\ e.success = FALSE
    /\ "error" \in DOMAIN e
    /\ \E i, j \in 1..Len(e.error) :
         /\ OccursAt(e.error, yahoo_error, i)
         /\ OccursAt(e.error, av_error, j)
         /\ j >= i + Len(yahoo_error)

\* the primary timed out, the secondary had no "Global Quote"
C6_Witness ==
  /\ pc = "done" /\ op = "get_stock_quote"
  /\ yahoo_error = <<"Error fetching stock data: ", "ReadTimeout">>
  /\ av_error = <<"Error fetching stock data: ", "Invalid response or API limit reached">>
  /\ response.val.success = FALSE

\* C7: a returned quote is tagged "Yahoo Finance" exactly when the primary
\* attempt succeeded and "Alpha Vantage" exactly when the primary failed and
\* the secondary succeeded.
C7_DataSourceNamesTheAnsweringProvider ==
  (Ended("quote") /\ "quote" \notin failed) =>
    LET e == Envelope("quote")
        q == QuoteRequests
    IN  /\ e.success
        /\ "data_source" \in DOMAIN e.data
        /\ e.data.data_source \in {"Yahoo Finance", "Alpha Vantage"}
        /\ e.data.data_source = "Yahoo Finance" <=> yahoo_error = <<>>
        /\ e.data.data_source = "Alpha Vantage" <=> (yahoo_error # <<>> /\ av_error = <<>>)
        /\ e.data.data_source = q[Len(q)].provider

\* the primary timed out and the secondary answered
C7_Witness ==
  /\ pc = "done" /\ op = "get_stock_quote"
  /\ yahoo_error = <<"Error fetching stock data: ", "ReadTimeout">>
  /\ response.val.success
  /\ response.val.data.data_source = "Alpha Vantage"

\* C8 (as claimed): no exposed operation lets an exception escape; each
\* returns an envelope with a success flag, and when the underlying component
\* fails the envelope has success=false and an error string.
C8_EveryFailureEnvelopeHasError ==
  pc = "done" =>
    /\ ~response.exc
    /\ "success" \in DOMAIN response.val
    /\ failed # {} =>
         /\ response.val.success = FALSE
         /\ "error" \in DOMAIN response.val

\* C8 (amended): no exposed operation lets an exception escape; each returns
\* an envelope with a success flag; when the underlying component fails,
\* get_stock_quote, get_stock_fundamentals and get_stock_news return
\* success=false with a non-empty error string, and get_stock_analysis returns
\* success=false with failed_components, the error string being in the
\* sub-result of each failed component.
C8_NoExceptionEscapes ==
  pc = "done" =>
    /\ ~response.exc
    /\ "success" \in DOMAIN response.val
    /\ failed = {} => response.val.success
    /\ failed # {} =>
         /\ response.val.success = FALSE
         /\ IF InAnalysis
            THEN /\ "error" \notin DOMAIN response.val
                 /\ "failed_components" \in DOMAIN response.val
                 /\ \A c \in failed :
                      /\ Envelope(c).success = FALSE
                      /\ "error" \in DOMAIN Envelope(c)
                      /\ Envelope(c).error # <<>>
            ELSE /\ "error" \in DOMAIN response.val
                 /\ response.val.error # <<>>

\* get_stock_analysis answered although the news could not be fetched
C8_Witness ==
  /\ pc = "done" /\ InAnalysis
  /\ "news" \in failed
  /\ response.val.success = FALSE
  /\ Envelope("news").error # <<>>

\* C9 (as claimed): every item returned by get_indian_stock_news has a
\* non-empty title and a non-empty link, whichever source it came from.
C9_EveryItemHasTitleAndLink ==
  (Ended("news") /\ "news" \notin failed) =>
    \A i \in 1..Len(Envelope("news").data) :
      /\ Envelope("news").data[i].title # ""
      /\ Envelope("news").data[i].link # ""

IsSortedDesc(news) ==
  \A i, j \in 1..Len(news) : i < j => news[i].published >= news[j].published

\* C10: the sequence get_indian_stock_news returns is ordered by published
\* descending, items with an unparsable date (the minimum instant) last, and
\* sorting it again by published descending yields the same sequence.
C10_ReturnedNewsSortedAndResortStable ==
  (Ended("news") /\ "news" \notin failed) =>
    LET data == Envelope("news").data IN
    /\ IsSortedDesc(data)
    /\ \A i, j \in 1..Len(data) :
         (data[i].published = DateMin /\ data[j].published # DateMin) => j < i
    /\ SortByPublishedDesc(data) = data

\* three items or more, a Google item sorted before an older Yahoo item that
\* arrived first, an item with an unparsable date at the end
C10_Witness ==
  /\ pc = "done" /\ op = "get_stock_news"
  /\ response.val.success
  /\ Len(response.val.data) >= 3
  /\ response.val.data[1].source = "Google News"
  /\ response.val.data[1].published > response.val.data[2].published
  /\ response.val.data[2].source = "Yahoo Finance"
  /\ response.val.data[Len(response.val.data)].published = DateMin

\* the symbol the quote fallback chain was called with, while it runs
InQuoteChain == "symbol" \in DOMAIN sub

\* C11: within the quote fallback chain a symbol that already ends in .NS or
\* .BO is requested from every provider, the secondary after a primary
\* failure included, exactly as given, with no further suffix appended; a
\* symbol without a suffix gets the provider's default suffix appended.
C11_SuffixedSymbolRequestedUnchanged ==
  InQuoteChain =>
    \A i \in 1..Len(QuoteRequests) :
      LET target == QuoteRequests[i].target
          default == IF QuoteRequests[i].provider = "Yahoo Finance"
                     THEN ".NS" ELSE ".BSE"
      IN  /\ (EndsWith(sub.symbol, ".NS") \/ EndsWith(sub.symbol, ".BO")) =>
               target = sub.symbol
          /\ Len(sub.symbol) = 1 => target = sub.symbol \o <<default>>

\* C12: each provider's normalization returns a symbol that ends in a suffix
\* it recognizes (.NS or .BO for the Yahoo-style functions, .BSE for Alpha
\* Vantage) unchanged, appends its default suffix (.NS, .BSE) exactly once to
\* any other symbol, and normalizing the result again changes nothing.
C12_NormalizeAppendsDefaultOnceAndIsIdempotent ==
  pc = "normalized" =>
    LET symbol == args.symbol
        alphavantage == requests[1].provider = "Alpha Vantage"
        recognized == IF alphavantage THEN {".BSE"} ELSE {".NS", ".BO"}
        default == IF alphavantage THEN ".BSE" ELSE ".NS"
        ends == symbol # <<>> /\ symbol[Len(symbol)] \in recognized
        once == requests[1].target
        twice == requests[2].target
    IN  /\ ends => once = symbol
        /\ ~ends => once = Append(symbol, default)
        /\ twice = once

\* the Yahoo quote function was entered with INFY.BO and requested INFY.BO,
\* the first time and the second
C12_Witness ==
  /\ pc = "normalized"
  /\ args.symbol = <<"INFY", ".BO">>
  /\ requests[1] = [provider |-> "Yahoo Finance", target |-> <<"INFY", ".BO">>]
  /\ requests[2] = requests[1]

\* C13: every quote the fallback chain returns, whichever provider answered,
\* has change_percent equal to the number 0 when its previous_close is 0,
\* and neither provider function fails with a division by zero.
C13_ZeroPreviousCloseGivesNumberZero ==
  /\ ~Contains(yahoo_error, <<"division by zero">>)
  /\ ~Contains(av_error, <<"division by zero">>)
  /\ (Ended("quote") /\ Envelope("quote").success) =>
       LET data == Envelope("quote").data IN
       data.previous_close = 0 =>
         data.change_percent = [type |-> "number", x100 |-> 0]

\* the fetch of a news source in the current call, once it was made
Fetched(provider) == \E i \in 1..Len(requests) : requests[i].provider = provider

FetchOf(provider) ==
  requests[CHOOSE i \in 1..Len(requests) : requests[i].provider = provider]

\* C14: a news source is flagged successful whenever its fetch completed
\* without a fetch-level error, however many items survive, zero included;
\* so when the Yahoo news fetch fails and the Google feed is fetched without
\* error with zero entries, get_indian_stock_news returns the empty list
\* instead of failing.
C14_SourceSucceedsWhenFetchCompletes ==
  /\ (Fetched("yfinance.news") /\ FetchOf("yfinance.news").outcome = "ok") => yf_success
  /\ (Fetched("Google News RSS") /\ FetchOf("Google News RSS").outcome = "ok") =>
       google_success
  /\ ( /\ Ended("news")
       /\ FetchOf("yfinance.news").outcome = "raise"
       /\ FetchOf("Google News RSS").outcome = "ok"
       /\ FetchOf("Google News RSS").fetched = 0 ) =>
       /\ Envelope("news").success
       /\ Envelope("news").data = <<>>

\* how many times x occurs in the list
Occurrences(news, x) == Cardinality({i \in 1..Len(news) : news[i] = x})

\* the two lists hold the same items the same number of times
SameItems(left, right) ==
  /\ Len(left) = Len(right)
  /\ \A i \in 1..Len(left) : Occurrences(left, left[i]) = Occurrences(right, left[i])

\* C15: when get_indian_stock_news returns, the list it returns is the first
\* max_items elements of the concatenation of the items both sources kept
\* (a from Yahoo Finance, b from Google News), sorted by published
\* descending, no item removed as a duplicate or lost; for max_items >= 0 its
\* length is min(max_items, a + b).
C15_ReturnsFirstMaxItemsOfSortedConcatenation ==
  [][ (pc = "news_finish" /\ "news" \notin failed') =>
        LET concatenation == combined_news
            sorted == combined_news'
            data == Envelope("news")'.data
            a == FetchOf("yfinance.news").processed
            b == FetchOf("Google News RSS").processed
            n == IF sub.max_items < a + b THEN sub.max_items ELSE a + b
        IN  /\ Len(concatenation) = a + b
            /\ SameItems(concatenation, sorted)
            /\ IsSortedDesc(sorted)
            /\ sub.max_items >= 0 => Len(data) = n /\ data = SubSeq(sorted, 1, n) ]_vars

\* one of two Yahoo items was dropped, Google gave two, and the three kept
\* items were cut to max_items = 2
C15_Witness ==
  /\ pc = "done" /\ op = "get_stock_news"
  /\ response.val.success
  /\ FetchOf("yfinance.news").fetched = 2
  /\ FetchOf("yfinance.news").processed = 1
  /\ FetchOf("Google News RSS").processed = 2
  /\ args.max_items = 2
  /\ Len(response.val.data) = 2
  /\ response.val.data = SubSeq(combined_news, 1, 2)

\* the ticker of the running get_stock_analysis call is BASE.BO, BASE holding
\* neither .NS nor .BO
IsBaseBO ==
  /\ InAnalysis
  /\ EndsWith(args.ticker, ".BO")
  /\ \A i \in 1..(Len(args.ticker) - 1) : args.ticker[i] \notin {".NS", ".BO"}

Base == SubSeq(args.ticker, 1, Len(args.ticker) - 1)

\* what every provider request of the analysis is made for: `secondary` for
\* Alpha Vantage, BASE.NS for Yahoo Finance, the ticker for the rest
RequestedFor(secondary) ==
  \A i \in 1..Len(requests) :
    requests[i].target =
      CASE requests[i].provider = "Yahoo Finance" -> Base \o <<".NS">>
        [] requests[i].provider = "Alpha Vantage" -> secondary
        [] requests[i].provider = "Google News RSS" -> requests[i].target
        [] OTHER -> args.ticker

\* C16 as stated: in get_stock_analysis with a ticker BASE.BO (BASE holding
\* neither .NS nor .BO) the primary quote provider is requested for BASE.NS
\* and the secondary for BASE.BSE, while the fundamentals and the news are
\* fetched for BASE.BO.
C16_SecondaryAlwaysBaseBSE ==
  IsBaseBO => RequestedFor(Base \o <<".BSE">>)

\* C16: in get_stock_analysis with a ticker BASE.BO (BASE holding neither .NS
\* nor .BO) the primary quote provider is requested for BASE.NS and the
\* secondary for BASE.BSE, or for BASE itself when BASE ends in .BSE, while
\* the fundamentals and the news are fetched for BASE.BO.
C16_QuoteRequestedForAnotherExchange ==
  IsBaseBO =>
    RequestedFor(IF EndsWith(Base, ".BSE") THEN Base ELSE Base \o <<".BSE">>)

\* a finished report for INFY.BO: both quote providers, the fundamentals and
\* the news were requested
C16_Witness ==
  /\ pc = "done" /\ InAnalysis
  /\ args.ticker = <<"INFY", ".BO">>
  /\ \E i \in 1..Len(requests) :
       requests[i] = [provider |-> "Yahoo Finance", target |-> <<"INFY", ".NS">>]
  /\ \E i \in 1..Len(requests) :
       requests[i] = [provider |-> "Alpha Vantage", target |-> <<"INFY", ".BSE">>]
  /\ \E i \in 1..Len(requests) :
       requests[i] = [provider |-> "yfinance.Ticker", target |-> <<"INFY", ".BO">>]
  /\ Fetched("yfinance.news")
  /\ FetchOf("yfinance.news").target = <<"INFY", ".BO">>

====
